---- MODULE Spec2Model ----
(***************************************************************************)
(* Eltako EnOcean integration: the cover position estimator                *)
(* (cover.py, EltakoStandardCover), the gateway's subscription router and  *)
(* its connection handling (gateway.py, EnOceanGateway).                   *)
(*                                                                         *)
(* The specifications share the variables:                                 *)
(*   SpecCover   one cover, its commands and its telegram handler          *)
(*   SpecRouter  address/broadcast registries, unsubscribe, dispatch       *)
(*   SpecConn    transports, reconnect, status observers, send             *)
(*   SpecPeers   two gateway instances on the class-level registries       *)
(*   SpecUnsubscribing  dispatch during which a callback unsubscribes       *)
(*   SpecSensors the four digital input sensors of an A5-30-03 device      *)
(*   SpecSystem  the cover subscribed to the gateway, beside other devices *)
(* Python's None is the integer None (-1) where the field is numeric and   *)
(* the string "None" where it is a tri-state flag.                         *)
(***************************************************************************)
EXTENDS Integers, Sequences, FiniteSets, TLC

None == -1

Min(a, b) == IF a < b THEN a ELSE b
Max(a, b) == IF a > b THEN a ELSE b

(***************************************************************************)
(* Input sets of the cover model.  Travel times are the integral values of *)
(* the configured floats (config_flow.py 183-191: Coerce(float), 1..255).  *)
(***************************************************************************)
Cfg(o, c, t) == [time_opens |-> o, time_closes |-> c, time_tilts |-> t]
Configs == {Cfg(None, None, None), Cfg(None, None, 10), Cfg(20, None, None),
            Cfg(None, 15, 10), Cfg(20, 15, None), Cfg(40, 20, 10),
            Cfg(100, 100, None), Cfg(255, 255, None)}
TelegramTimes == {80, 100, 182}
Targets == {0, 20, 47, 80, 100}
TiltTargets == {0, 70, 100}
MaxTiltTasks == 1

DIRECTION_UP == "UP"
DIRECTION_DOWN == "DOWN"

VARIABLES
    \* ---- cover (cover.py 53-65) ----
    time_opens, time_closes, time_tilts,
    fast_status_change,
    current_cover_position, current_cover_tilt_position,
    is_opening, is_closing, is_closed,
    \* ---- what the last cover operation did ----
    issued,     \* messages passed to async_send_message, in order
    error,      \* exception that left the operation, "none" if it returned
    notified,   \* schedule_update_ha_state was called
    slept,      \* hundredths of a second passed to asyncio.sleep, or None
    lastOp,     \* the operation, its argument and the state it started from
    forwarded,  \* messages its invocation has handed to the transport so far
    \* ---- set_tilt invocations suspended in asyncio.sleep (cover.py 184) ----
    tilt_sleeping,
    tilt_forwarded, \* how many of them have handed which messages so far
    \* ---- gateway registries (gateway.py 46-48) ----
    address_subscriptions,          \* address -> list of callbacks
    general_subscriptions,          \* list of callbacks
    connection_state_subscriptons,  \* list of callbacks
    \* ---- unsubscribe closures handed out (gateway.py 76, 82, 89) ----
    live,       \* per captured (registry, address, callback): not yet called
    spent,      \* per captured (registry, address, callback): already called
    \* ---- transports (gateway.py 95-129) ----
    buses,      \* every transport constructed; self._bus is the last one
    peer_bus,   \* self._bus of a second EnOceanGateway instance
    \* ---- telegrams passed to async_send_message_to_serial_bus ----
    submitted,  \* per telegram: was the transport active when it was passed
    handed,     \* indices of the telegrams handed to a transport's send
    \* ---- what the last gateway operation did ----
    invoked,        \* message callbacks invoked, in order
    conn_invoked,   \* connection-state callbacks invoked, in order
    gw_error,       \* exception that left the operation, "none" if none
    gwLastOp,       \* the operation and its arguments
    \* ---- digital input sensors (binary_sensor.py 132-205) ----
    is_on,          \* _attr_is_on of the sensors 0..3
    sensorLastOp    \* the last value_changed of a sensor and what it did

coverConfig == <<time_opens, time_closes, time_tilts, fast_status_change>>
coverState == <<current_cover_position, current_cover_tilt_position,
                is_opening, is_closing, is_closed>>
coverOut == <<issued, error, notified, slept, lastOp, forwarded>>
tiltTasks == <<tilt_sleeping, tilt_forwarded>>
coverVars == <<coverConfig, coverState, coverOut, tiltTasks>>

registryVars == <<address_subscriptions, general_subscriptions,
                  connection_state_subscriptons>>
handleVars == <<live, spent>>
sendVars == <<submitted, handed>>
gwOut == <<invoked, conn_invoked, gw_error, gwLastOp>>
gwVars == <<registryVars, handleVars, buses, peer_bus, sendVars, gwOut>>

sensorVars == <<is_on, sensorLastOp>>

vars == <<coverVars, gwVars, sensorVars>>

(***************************************************************************)
(* int(x) of a double-precision product.  The exact quotient is computed   *)
(* in integers; the pairs listed are those of the input domain where the   *)
(* double-precision result falls just below an exact integer, so that      *)
(* int() yields one less (e.g. int(18.2 / 20 * 100.0) = 90).                 *)
(***************************************************************************)
\* int(time / 10.0 / T * 100.0) differs from floor(time * 10 / T) here,
\* for time in TelegramTimes and T in the travel times above.
InexactDuration == {<<182, 10>>, <<182, 20>>}

\* int((d / 100.0) * T) differs from floor(d * T / 100) here, for every
\* d in 1..99 and every integral T in 1..255.
InexactInterp == {<<58, 50>>, <<70, 90>>, <<29, 100>>, <<57, 100>>,
                  <<58, 100>>, <<82, 150>>, <<70, 170>>, <<35, 180>>,
                  <<70, 180>>, <<29, 200>>, <<57, 200>>, <<58, 200>>}

\* int(time_in_seconds / T * 100.0), time_in_seconds = time / 10.0
DurationPercent(time, T) ==
    LET exact == (time * 10) \div T
    IN  IF <<time, T>> \in InexactDuration THEN exact - 1 ELSE exact

\* mutant: the product is rounded to the nearest integer instead of truncated
InterpolatedTime_Rounded(d, T) == (d * T + 50) \div 100

\* int((d / 100.0) * T)
InterpolatedTime(d, T) ==
    LET exact == (d * T) \div 100
    IN  IF <<d, T>> \in InexactInterp THEN exact - 1 ELSE exact

\* H5_3F_7F(moving_time, command, 1): command 1 = up, 2 = down, 0 = stop
H5_3F_7F(moving_time, command) ==
    [moving_time |-> moving_time, command |-> command]

\* what a suspended set_tilt can have handed to the transport: its move
\* command or nothing
TiltForwards == {<<>>, <<H5_3F_7F(0, 1)>>, <<H5_3F_7F(0, 2)>>}

\* self.gateway.fast_status_change(): the attribute is a property whose value
\* is the configured bool, and calling a bool raises TypeError.
FastStatusChangeCall ==
    [raises |-> "TypeError", value |-> fast_status_change]

\* Decoded G5_3F_7F payloads: an RPS telegram carries a state code, a 4BS
\* telegram the elapsed time (tenths of a second) and the direction; any
\* other organisation makes decode_message raise WrongOrgError.
NoTelegram == [org |-> "none", state |-> None, time |-> None, direction |-> None]
StateTelegrams ==
    {[org |-> "RPS", state |-> s, time |-> None, direction |-> None] :
        s \in {0, 1, 2, 80, 112}}
DurationTelegrams ==
    {[org |-> "4BS", state |-> None, time |-> t, direction |-> d] :
        t \in TelegramTimes, d \in {1, 2}}
ForeignTelegrams ==
    {[org |-> "1BS", state |-> None, time |-> None, direction |-> None]}
Telegrams == StateTelegrams \cup DurationTelegrams \cup ForeignTelegrams

Snapshot(op, arg, msg) ==
    [op |-> op, arg |-> arg, msg |-> msg,
     position |-> current_cover_position,
     tilt |-> current_cover_tilt_position,
     opening |-> is_opening, closing |-> is_closing, closed |-> is_closed]

\* cover.py 53-75 for one configuration entry
CoverStart(cfg, fast) ==
    /\ time_opens = cfg.time_opens
    /\ time_closes = cfg.time_closes
    /\ time_tilts = cfg.time_tilts
    /\ fast_status_change = fast
    /\ current_cover_position = None
    /\ current_cover_tilt_position = None
    /\ is_opening = FALSE
    /\ is_closing = FALSE
    /\ is_closed = "None"
    /\ issued = <<>>
    /\ error = "none"
    /\ notified = FALSE
    /\ slept = None
    /\ tilt_sleeping = 0
    /\ tilt_forwarded = [done \in TiltForwards |-> 0]
    /\ forwarded = <<>>
    /\ lastOp = [op |-> "init", arg |-> None, msg |-> NoTelegram,
                 position |-> None, tilt |-> None,
                 opening |-> FALSE, closing |-> FALSE, closed |-> "None"]

CoverInit == \E cfg \in Configs, fast \in BOOLEAN : CoverStart(cfg, fast)

\* self._bus
Bus == Len(buses)

\* start() called, stop() not yet
Running(b) == buses[b].started /\ ~buses[b].stopped

\* self._bus.is_active()
IsActive(b) == Running(b) /\ buses[b].connected

\* mutant: the message goes to the transport whatever its status
Forwarded_Always(active, esp2) == esp2

\* gateway.py 133-137: is the message handed to self._bus.send
Forwarded(active, esp2) == active /\ esp2

\* entity.py 63-65, gateway.py 131-139: of the messages an entity passes to
\* async_send_message, those that are handed to self._bus.send
Handed(msgs) == IF Forwarded(IsActive(Bus), TRUE) THEN msgs ELSE <<>>

\* mutant: a command marks the cover as not closed
EstimateKept_ClearsClosed ==
    /\ is_closed' = "False"
    /\ UNCHANGED <<current_cover_position, current_cover_tilt_position>>

\* cover.py 77-165: the commands assign _attr_is_opening and _attr_is_closing
\* only; position, tilt and is_closed are written by value_changed alone
EstimateKept ==
    UNCHANGED <<current_cover_position, current_cover_tilt_position,
                is_closed>>

\* The tail shared by the commands: the message is sent, then the
\* fast-status-change flag is consulted (cover.py 87-92, 104-110, 144-153,
\* 160-165).  flags is the pair <<is_opening, is_closing>> of the optimistic
\* update.
SendThenOptimistic(msg, flags) ==
    LET fsc == FastStatusChangeCall
    IN  /\ issued' = <<msg>>
        /\ forwarded' = Handed(<<msg>>)
        /\ slept' = None
        /\ IF fsc.raises # "none"
           THEN /\ error' = fsc.raises
                /\ notified' = FALSE
                /\ UNCHANGED <<is_opening, is_closing>>
           ELSE /\ error' = "none"
                /\ IF fsc.value
                   THEN /\ is_opening' = flags[1]
                        /\ is_closing' = flags[2]
                        /\ notified' = TRUE
                   ELSE /\ notified' = FALSE
                        /\ UNCHANGED <<is_opening, is_closing>>
        /\ EstimateKept

\* mutant: the travel time is sent without its margin of one second
EndStopTime_NoMargin(T) == IF T # None THEN T ELSE 255

\* cover.py 79-82, 96-99: the travel time plus one second, 255 if unset
EndStopTime(T) == IF T # None THEN T + 1 ELSE 255

async_open_cover ==
    LET moving_time == EndStopTime(time_opens)
    IN  /\ lastOp' = Snapshot("open", None, NoTelegram)
        /\ SendThenOptimistic(H5_3F_7F(moving_time, 1), <<TRUE, FALSE>>)
        /\ UNCHANGED <<coverConfig, tiltTasks, gwVars, sensorVars>>

async_close_cover ==
    LET moving_time == EndStopTime(time_closes)
    IN  /\ lastOp' = Snapshot("close", None, NoTelegram)
        /\ SendThenOptimistic(H5_3F_7F(moving_time, 2), <<FALSE, TRUE>>)
        /\ UNCHANGED <<coverConfig, tiltTasks, gwVars, sensorVars>>

async_stop_cover ==
    /\ lastOp' = Snapshot("stop", None, NoTelegram)
    /\ SendThenOptimistic(H5_3F_7F(0, 0), <<FALSE, FALSE>>)
    /\ UNCHANGED <<coverConfig, tiltTasks, gwVars, sensorVars>>

\* cover.py 122-139: the direction chosen for a target
SetPositionDirection(position, cur) ==
    IF position = 100 THEN DIRECTION_UP
    ELSE IF position = 0 THEN DIRECTION_DOWN
    ELSE IF position > cur THEN DIRECTION_UP
    ELSE DIRECTION_DOWN

\* cover.py 122-139: moving_time before the clamp
SetPositionMovingTime(position, cur) ==
    IF position = 100 THEN time_opens + 1
    ELSE IF position = 0 THEN -(time_closes + 1)
    ELSE IF position > cur THEN InterpolatedTime(position - cur, time_opens)
    ELSE InterpolatedTime(cur - position, time_closes)

\* cover.py 142: max(1, min(moving_time, 255))
ClampMovingTime(moving_time) == Max(1, Min(moving_time, 255))

\* mutant: only the missing travel times end the command early
SetPositionReturns_TimesOnly(position) ==
    time_closes = None \/ time_opens = None

\* cover.py 114-115, 120-121: the two early returns
SetPositionReturns(position) ==
    \/ time_closes = None \/ time_opens = None
    \/ position = current_cover_position

async_set_cover_position(position) ==
    /\ lastOp' = Snapshot("set_position", position, NoTelegram)
    /\ UNCHANGED <<coverConfig, tiltTasks, gwVars, sensorVars>>
    /\ IF SetPositionReturns(position)
       THEN \* early returns, lines 114-115 and 120-121
            /\ slept' = None
            /\ issued' = <<>>
            /\ forwarded' = <<>>
            /\ error' = "none"
            /\ notified' = FALSE
            /\ UNCHANGED coverState
       ELSE IF position \notin {0, 100} /\ current_cover_position = None
       THEN \* position > None raises TypeError, line 128
            /\ slept' = None
            /\ issued' = <<>>
            /\ forwarded' = <<>>
            /\ error' = "TypeError"
            /\ notified' = FALSE
            /\ UNCHANGED coverState
       ELSE LET direction ==
                    SetPositionDirection(position, current_cover_position)
                moving_time ==
                    SetPositionMovingTime(position, current_cover_position)
                command == IF direction = DIRECTION_UP THEN 1 ELSE 2
            IN  SendThenOptimistic(
                    H5_3F_7F(ClampMovingTime(moving_time), command),
                    <<direction = DIRECTION_UP, direction = DIRECTION_DOWN>>)

\* mutant: an unknown position is seeded at the wrong end
DurationPosition_SeedSwapped(time, direction, cur) ==
    IF direction = 1
    THEN Min((IF cur = None THEN 100 ELSE cur)
             + DurationPercent(time, time_opens), 100)
    ELSE Max((IF cur = None THEN 0 ELSE cur)
             - DurationPercent(time, time_closes), 0)

\* mutant: the sleep keeps the sign of the tilt difference
TiltSleep_Signed(tilt_diff) == Min(tilt_diff * time_tilts, 25500)

\* cover.py 179, 184: min(abs(tilt_diff) / 100.0 * time_tilts, 255) seconds,
\* in hundredths of a second
TiltSleep(tilt_diff) ==
    Min((IF tilt_diff < 0 THEN -tilt_diff ELSE tilt_diff) * time_tilts, 25500)

\* cover.py 167-184: up to the suspension in asyncio.sleep
async_set_cover_tilt_position(tilt_position) ==
    /\ lastOp' = Snapshot("set_tilt", tilt_position, NoTelegram)
    /\ UNCHANGED <<coverConfig, coverState, gwVars, sensorVars>>
    /\ notified' = FALSE
    /\ IF current_cover_tilt_position = None
       THEN \* int - None raises TypeError, line 171
            /\ issued' = <<>>
            /\ forwarded' = <<>>
            /\ slept' = None
            /\ error' = "TypeError"
            /\ UNCHANGED tiltTasks
       ELSE IF tilt_position = current_cover_tilt_position
       THEN \* tilt_diff == 0, lines 173-174
            /\ issued' = <<>>
            /\ forwarded' = <<>>
            /\ slept' = None
            /\ error' = "none"
            /\ UNCHANGED tiltTasks
       ELSE IF time_tilts = None
       THEN \* float * None raises TypeError, line 179
            /\ issued' = <<>>
            /\ forwarded' = <<>>
            /\ slept' = None
            /\ error' = "TypeError"
            /\ UNCHANGED tiltTasks
       ELSE /\ tilt_sleeping < MaxTiltTasks
            /\ issued' = <<H5_3F_7F(0,
                   IF tilt_position > current_cover_tilt_position
                   THEN 1 ELSE 2)>>
            /\ forwarded' = Handed(issued')
            /\ slept' = TiltSleep(tilt_position - current_cover_tilt_position)
            /\ error' = "none"
            /\ tilt_sleeping' = tilt_sleeping + 1
            /\ tilt_forwarded' = [tilt_forwarded EXCEPT ![forwarded'] = @ + 1]

\* cover.py 185-186: a suspended set_tilt resumes and sends the stop command
set_cover_tilt_position_resumes ==
    /\ tilt_sleeping > 0
    /\ tilt_sleeping' = tilt_sleeping - 1
    /\ lastOp' = Snapshot("set_tilt_resumed", None, NoTelegram)
    /\ issued' = <<H5_3F_7F(0, 0)>>
    /\ \E done \in TiltForwards :
          /\ tilt_forwarded[done] > 0
          /\ tilt_forwarded' = [tilt_forwarded EXCEPT ![done] = @ - 1]
          /\ forwarded' = done \o Handed(issued')
    /\ slept' = None
    /\ error' = "none"
    /\ notified' = FALSE
    /\ UNCHANGED <<coverConfig, coverState, gwVars, sensorVars>>

\* cover.py 220-254: the position after a duration telegram
DurationPosition(time, direction, cur) ==
    IF direction = 1
    THEN Min((IF cur = None THEN 0 ELSE cur)
             + DurationPercent(time, time_opens), 100)
    ELSE Max((IF cur = None THEN 100 ELSE cur)
             - DurationPercent(time, time_closes), 0)

\* mutant: the tilt is not limited to 0..100
DurationTilt_Unclamped(time, direction, cur) ==
    IF direction = 1
    THEN cur + DurationPercent(time, time_tilts)
    ELSE cur - DurationPercent(time, time_tilts)

\* cover.py 232-237, 249-254: the tilt after a duration telegram (tilt known)
DurationTilt(time, direction, cur) ==
    IF direction = 1
    THEN Min(cur + DurationPercent(time, time_tilts), 100)
    ELSE Max(cur - DurationPercent(time, time_tilts), 0)

\* mutant: 'moving down' leaves is_closed as it was
MovingDown_KeepsClosed ==
    [position |-> current_cover_position, tilt |-> current_cover_tilt_position,
     opening |-> FALSE, closing |-> TRUE, closed |-> is_closed]

\* cover.py 192-195, state code 0x02: moving down
MovingDown ==
    [position |-> current_cover_position, tilt |-> current_cover_tilt_position,
     opening |-> FALSE, closing |-> TRUE, closed |-> "False"]

\* mutant: the closed branch forgets the position
FullyClosed_KeepsPosition ==
    [position |-> current_cover_position, tilt |-> 0,
     opening |-> FALSE, closing |-> FALSE, closed |-> "True"]

\* mutant: the closed branch forgets the tilt
FullyClosed_KeepsTilt ==
    [position |-> 0, tilt |-> current_cover_tilt_position,
     opening |-> FALSE, closing |-> FALSE, closed |-> "True"]

\* cover.py 196-201, state code 0x50: fully closed
FullyClosed ==
    [position |-> 0, tilt |-> 0,
     opening |-> FALSE, closing |-> FALSE, closed |-> "True"]

\* mutant: 'moving up' leaves is_closing as it was
MovingUp_KeepsClosing ==
    [position |-> current_cover_position, tilt |-> current_cover_tilt_position,
     opening |-> TRUE, closing |-> is_closing, closed |-> "False"]

\* cover.py 202-205, state code 0x01: moving up
MovingUp ==
    [position |-> current_cover_position, tilt |-> current_cover_tilt_position,
     opening |-> TRUE, closing |-> FALSE, closed |-> "False"]

\* mutant: the open branch forgets the tilt
FullyOpen_KeepsTilt ==
    [position |-> 100, tilt |-> current_cover_tilt_position,
     opening |-> FALSE, closing |-> FALSE, closed |-> "False"]

\* cover.py 206-211, state code 0x70: fully open
FullyOpen ==
    [position |-> 100, tilt |-> 100,
     opening |-> FALSE, closing |-> FALSE, closed |-> "False"]

\* mutant: a payload that matches no branch resets the direction
Unmatched_ResetsDirection ==
    [position |-> current_cover_position, tilt |-> current_cover_tilt_position,
     opening |-> FALSE, closing |-> FALSE, closed |-> is_closed]

\* cover.py 192-219: no branch of the if/elif chain matches, every attribute
\* stays as it is
Unmatched ==
    [position |-> current_cover_position, tilt |-> current_cover_tilt_position,
     opening |-> is_opening, closing |-> is_closing, closed |-> is_closed]

\* the handler ran to its end with these attribute values (line 260)
Handled(r) ==
    /\ current_cover_position' = r.position
    /\ current_cover_tilt_position' = r.tilt
    /\ is_opening' = r.opening
    /\ is_closing' = r.closing
    /\ is_closed' = r.closed
    /\ error' = "none"
    /\ notified' = TRUE

\* cover.py 188-260: what the handler does to the cover
value_changed_cover(msg) ==
    /\ lastOp' = Snapshot("value_changed", None, msg)
    /\ UNCHANGED <<coverConfig, tiltTasks>>
    /\ issued' = <<>>
    /\ forwarded' = <<>>
    /\ slept' = None
    /\ IF msg.org \notin {"RPS", "4BS"}
       THEN \* decode_message raises WrongOrgError, line 190
            /\ error' = "WrongOrgError"
            /\ notified' = FALSE
            /\ UNCHANGED coverState
       ELSE IF msg.state = 2 THEN Handled(MovingDown)
       ELSE IF msg.state = 80 THEN Handled(FullyClosed)
       ELSE IF msg.state = 1 THEN Handled(MovingUp)
       ELSE IF msg.state = 112 THEN Handled(FullyOpen)
       ELSE IF /\ msg.time # None
               /\ msg.direction # None
               /\ time_closes # None
               /\ time_opens # None
       THEN LET position == DurationPosition(msg.time, msg.direction,
                                             current_cover_position)
            IN  IF time_tilts # None /\ current_cover_tilt_position = None
                THEN \* None + int raises TypeError, lines 233 and 250: the
                     \* position is already written, nothing after it runs
                     /\ current_cover_position' = position
                     /\ error' = "TypeError"
                     /\ notified' = FALSE
                     /\ UNCHANGED <<current_cover_tilt_position,
                                    is_opening, is_closing, is_closed>>
                ELSE Handled(
                        [position |-> position,
                         tilt |-> IF time_tilts # None
                                  THEN DurationTilt(msg.time, msg.direction,
                                           current_cover_tilt_position)
                                  ELSE current_cover_tilt_position,
                         opening |-> FALSE, closing |-> FALSE,
                         closed |-> IF position = 0 THEN "True" ELSE "False"])
       ELSE \* no branch matches: only the notification of line 260
            Handled(Unmatched)

\* value_changed(msg) called on the cover directly
value_changed(msg) ==
    /\ value_changed_cover(msg)
    /\ UNCHANGED <<gwVars, sensorVars>>

(***************************************************************************)
(* Digital input sensors (binary_sensor.py 132-205): four entities of one  *)
(* A5-30-03 device, each with its own value_changed.                       *)
(***************************************************************************)
Sensors == 0..3

\* A5_30_03.decode_message(msg): a 4BS telegram carries the learn button and
\* the four digital inputs; any other organisation raises WrongOrgError
NoInputTelegram ==
    [org |-> "none", learn_button |-> None,
     digital_input |-> [n \in Sensors |-> None]]
InputTelegrams ==
    {[org |-> "4BS", learn_button |-> l, digital_input |-> d] :
        l \in {0, 1}, d \in [Sensors -> {0, 1}]}
    \cup {[NoInputTelegram EXCEPT !.org = "RPS"]}

\* the decoded field that the value_changed of sensor n assigns to
\* _attr_is_on (binary_sensor.py 147, 166, 185, 204)
InputRead(n) ==
    IF n = 0 THEN 0
    ELSE IF n = 1 THEN 1
    ELSE IF n = 2 THEN 0
    ELSE 3

SensorOp(op, n, msg, raised, scheduled) ==
    [op |-> op, sensor |-> n, msg |-> msg,
     before |-> IF n \in Sensors THEN is_on[n] ELSE None,
     raised |-> raised, notified |-> scheduled]

\* BinarySensorEntity starts with _attr_is_on = None
SensorInit ==
    /\ is_on = [n \in Sensors |-> None]
    /\ sensorLastOp = SensorOp("init", None, NoInputTelegram, "none", FALSE)

\* EltakoDigitalInputSensor_<n>_A5_30_03.value_changed(msg)
digital_input_value_changed(n, msg) ==
    /\ IF msg.org # "4BS"
       THEN \* decode_message raises WrongOrgError
            /\ sensorLastOp' =
                   SensorOp("value_changed", n, msg, "WrongOrgError", FALSE)
            /\ UNCHANGED is_on
       ELSE IF msg.learn_button = 0
       THEN \* a learn telegram: return
            /\ sensorLastOp' = SensorOp("value_changed", n, msg, "none", FALSE)
            /\ UNCHANGED is_on
       ELSE /\ is_on' = [is_on EXCEPT ![n] = msg.digital_input[InputRead(n)]]
            /\ sensorLastOp' = SensorOp("value_changed", n, msg, "none", TRUE)
    /\ UNCHANGED <<coverVars, gwVars>>

SensorsNext ==
    \E n \in Sensors, msg \in InputTelegrams :
        digital_input_value_changed(n, msg)

(***************************************************************************)
(* Gateway (gateway.py, EnOceanGateway)                                    *)
(***************************************************************************)
MaxHandles == 3
MaxObservers == 2
MaxBuses == 3
MaxSends == 2

Addresses == {"A1", "A2"}
Callbacks == {"cb1", "cb2"}
NoAddress == "-"

MessageKinds == {"EltakoPoll", "EltakoWrappedRPS", "EltakoWrapped1BS",
                 "EltakoWrapped4BS", "RPSMessage", "Regular1BSMessage",
                 "Regular4BSMessage", "EltakoMessage"}

\* mutant: every message but a poll frame counts as payload-bearing
msg_classes_AnyButPoll ==
    {"EltakoWrappedRPS", "EltakoWrapped1BS", "EltakoWrapped4BS",
     "RPSMessage", "Regular1BSMessage", "Regular4BSMessage", "EltakoMessage"}

\* gateway.py 151-158
msg_classes == {"EltakoWrappedRPS", "EltakoWrapped1BS", "EltakoWrapped4BS",
                "RPSMessage", "Regular1BSMessage", "Regular4BSMessage"}

Messages == {[kind |-> k, address |-> a] : k \in MessageKinds, a \in Addresses}
NoMessage == [kind |-> "none", address |-> NoAddress]

\* The message kinds a subscriber's profile decodes; for any other kind its
\* decode_message raises WrongOrgError.  cb1 decodes like the cover
\* (G5_3F_7F: RPS and 4BS), cb2 like a 4BS-only profile.
Decodes(callback) ==
    IF callback = "cb1"
    THEN {"EltakoWrappedRPS", "RPSMessage", "EltakoWrapped4BS",
          "Regular4BSMessage"}
    ELSE {"EltakoWrapped4BS", "Regular4BSMessage"}

\* What an unsubscribe closure captures: the registry, and for the address
\* registry the address, and the callback.
Key(kind, address, callback) ==
    [kind |-> kind, address |-> address, callback |-> callback]
AddressKeys == {Key("address", a, cb) : a \in Addresses, cb \in Callbacks}
GeneralKeys == {Key("general", NoAddress, cb) : cb \in Callbacks}
ConnectionKeys == {Key("connection", NoAddress, cb) : cb \in Callbacks}
HandleKeys == AddressKeys \cup GeneralKeys \cup ConnectionKeys
NoKey == Key("none", NoAddress, "-")

RECURSIVE SumOver(_, _)
SumOver(f, S) ==
    IF S = {} THEN 0
    ELSE LET x == CHOOSE x \in S : TRUE
         IN  f[x] + SumOver(f, S \ {x})

\* closures handed out so far
HandleCount == SumOver(live, HandleKeys) + SumOver(spent, HandleKeys)

\* closures handed out so far for the connection-state registry
ObserverCount ==
    SumOver(live, ConnectionKeys) + SumOver(spent, ConnectionKeys)

\* x in list
Contains(list, x) == \E i \in 1..Len(list) : list[i] = x

\* list.remove(x) for a list that contains x: the first occurrence goes
RemoveFirst(list, x) ==
    LET i == CHOOSE i \in 1..Len(list) :
                 /\ list[i] = x
                 /\ \A j \in 1..(i - 1) : list[j] # x
    IN  SubSeq(list, 1, i - 1) \o SubSeq(list, i + 1, Len(list))

\* A transport as the gateway sees it: start() and stop() have been called on
\* it or not, join() has returned or not, and its serial connection is up or
\* down.
NewTransport ==
    [started |-> FALSE, stopped |-> FALSE, joined |-> FALSE,
     connected |-> FALSE]

\* async_setup has run (entities and buttons exist only afterwards)
SetUp == buses[1].started

GwOp(op, key, again, msg) ==
    [op |-> op, key |-> key, again |-> again, msg |-> msg]

GatewayInit ==
    /\ address_subscriptions = <<>>
    /\ general_subscriptions = <<>>
    /\ connection_state_subscriptons = <<>>
    /\ live = [k \in HandleKeys |-> 0]
    /\ spent = [k \in HandleKeys |-> 0]
    /\ buses = <<NewTransport>>
    /\ peer_bus = NewTransport
    /\ submitted = <<>>
    /\ handed = {}
    /\ invoked = <<>>
    /\ conn_invoked = <<>>
    /\ gw_error = "none"
    /\ gwLastOp = GwOp("init", NoKey, FALSE, NoMessage)

async_setup ==
    /\ Len(buses) = 1
    /\ ~buses[1].started
    /\ buses' = [buses EXCEPT ![1].started = TRUE]
    /\ invoked' = <<>>
    /\ conn_invoked' = <<>>
    /\ gw_error' = "none"
    /\ gwLastOp' = GwOp("async_setup", NoKey, FALSE, NoMessage)
    /\ UNCHANGED <<registryVars, handleVars, sendVars, coverVars, peer_bus,
                   sensorVars>>

\* self.address_subscriptions.setdefault(address, []).append(callback)
SetDefaultAppend(subs, address, callback) ==
    [a \in (DOMAIN subs) \cup {address} |->
        IF a = address
        THEN Append(IF a \in DOMAIN subs THEN subs[a] ELSE <<>>, callback)
        ELSE subs[a]]

register_address_callback(address, callback) ==
    /\ SetUp
    /\ HandleCount < MaxHandles
    /\ address_subscriptions' =
           SetDefaultAppend(address_subscriptions, address, callback)
    /\ live' = [live EXCEPT ![Key("address", address, callback)] = @ + 1]
    /\ invoked' = <<>>
    /\ conn_invoked' = <<>>
    /\ gw_error' = "none"
    /\ gwLastOp' = GwOp("register_address_callback",
                        Key("address", address, callback), FALSE, NoMessage)
    /\ UNCHANGED <<general_subscriptions, connection_state_subscriptons,
                   spent, buses, sendVars, coverVars, peer_bus,
                   sensorVars>>

register_message_received_callback(callback) ==
    /\ SetUp
    /\ HandleCount < MaxHandles
    /\ general_subscriptions' = Append(general_subscriptions, callback)
    /\ live' = [live EXCEPT ![Key("general", NoAddress, callback)] = @ + 1]
    /\ invoked' = <<>>
    /\ conn_invoked' = <<>>
    /\ gw_error' = "none"
    /\ gwLastOp' = GwOp("register_message_received_callback",
                        Key("general", NoAddress, callback), FALSE, NoMessage)
    /\ UNCHANGED <<address_subscriptions, connection_state_subscriptons,
                   spent, buses, sendVars, coverVars, peer_bus,
                   sensorVars>>

\* mutant: the callback is stored and first called on the next change
RegistrationCalls_Deferred(callback) == <<>>

\* gateway.py 87: the calls made while registering a connection-state callback
RegistrationCalls(callback) ==
    <<[callback |-> callback, status |-> IsActive(Bus)]>>

register_connection_state_callback(callback) ==
    /\ SetUp
    /\ HandleCount < MaxHandles
    /\ ObserverCount < MaxObservers
    /\ connection_state_subscriptons' =
           Append(connection_state_subscriptons, callback)
    /\ live' = [live EXCEPT ![Key("connection", NoAddress, callback)] = @ + 1]
    /\ invoked' = <<>>
    /\ conn_invoked' = RegistrationCalls(callback)
    /\ gw_error' = "none"
    /\ gwLastOp' = GwOp("register_connection_state_callback",
                        Key("connection", NoAddress, callback), FALSE,
                        NoMessage)
    /\ UNCHANGED <<address_subscriptions, general_subscriptions,
                   spent, buses, sendVars, coverVars, peer_bus,
                   sensorVars>>

\* the list an unsubscribe closure removes from
RegistryList(key) ==
    IF key.kind = "address" THEN address_subscriptions[key.address]
    ELSE IF key.kind = "general" THEN general_subscriptions
    ELSE connection_state_subscriptons

\* mutant: the closure removes nothing
Removal_Keeps(list, callback) == [list |-> list, raises |-> "none"]

\* list.remove(callback): ValueError when the callback is not in the list
Removal(list, callback) ==
    IF Contains(list, callback)
    THEN [list |-> RemoveFirst(list, callback), raises |-> "none"]
    ELSE [list |-> list, raises |-> "ValueError"]

\* Calling an unsubscribe closure (gateway.py 76, 82, 89), for its first time
\* (again = FALSE) or once more (again = TRUE).
Unsubscribe(key, again) ==
    /\ IF again THEN spent[key] > 0 ELSE live[key] > 0
    /\ LET r == Removal(RegistryList(key), key.callback)
       IN  /\ address_subscriptions' =
                  IF key.kind = "address"
                  THEN [address_subscriptions EXCEPT ![key.address] = r.list]
                  ELSE address_subscriptions
           /\ general_subscriptions' =
                  IF key.kind = "general" THEN r.list
                  ELSE general_subscriptions
           /\ connection_state_subscriptons' =
                  IF key.kind = "connection" THEN r.list
                  ELSE connection_state_subscriptons
           /\ gw_error' = r.raises
    /\ live' = IF again THEN live ELSE [live EXCEPT ![key] = @ - 1]
    /\ spent' = IF again THEN spent ELSE [spent EXCEPT ![key] = @ + 1]
    /\ invoked' = <<>>
    /\ conn_invoked' = <<>>
    /\ gwLastOp' = GwOp("unsubscribe", key, again, NoMessage)
    /\ UNCHANGED <<buses, sendVars, coverVars, peer_bus,
                   sensorVars>>

\* gateway.py 148-149: every broadcast callback, without arguments
GeneralCalls ==
    [i \in 1..Len(general_subscriptions) |->
        [list |-> "general", callback |-> general_subscriptions[i],
         msg |-> NoMessage, raised |-> "none"]]

\* mutant: the first WrongOrgError ends the loop over the address callbacks
AddressCalls_StopsAtError(msg) ==
    IF msg.kind \in msg_classes /\ msg.address \in DOMAIN address_subscriptions
    THEN LET list == address_subscriptions[msg.address]
             failing == {i \in 1..Len(list) : msg.kind \notin Decodes(list[i])}
             last == IF failing = {} THEN Len(list)
                     ELSE CHOOSE i \in failing : \A j \in failing : i <= j
         IN  [i \in 1..last |->
                 [list |-> "address", callback |-> list[i], msg |-> msg,
                  raised |-> IF msg.kind \in Decodes(list[i])
                             THEN "none" ELSE "WrongOrgError"]]
    ELSE <<>>

\* gateway.py 160-165: the callbacks of the message's address; a
\* WrongOrgError of a callback is caught and logged
AddressCalls(msg) ==
    IF msg.kind \in msg_classes /\ msg.address \in DOMAIN address_subscriptions
    THEN LET list == address_subscriptions[msg.address]
         IN  [i \in 1..Len(list) |->
                 [list |-> "address", callback |-> list[i], msg |-> msg,
                  raised |-> IF msg.kind \in Decodes(list[i])
                             THEN "none" ELSE "WrongOrgError"]]
    ELSE <<>>

\* mutant: the address callbacks are served before the broadcast callbacks
DispatchCalls_AddressFirst(msg) ==
    IF msg.kind = "EltakoPoll" THEN <<>>
    ELSE AddressCalls(msg) \o GeneralCalls

\* mutant: poll frames are dispatched like any other message
DispatchCalls_PollIncluded(msg) == GeneralCalls \o AddressCalls(msg)

\* gateway.py 141-165: the callbacks one inbound message invokes
DispatchCalls(msg) ==
    IF msg.kind = "EltakoPoll" THEN <<>>
    ELSE GeneralCalls \o AddressCalls(msg)

\* gateway.py 141-165: what the dispatch of msg does to the gateway when it
\* made these calls and ended with this exception ("none" if it returned)
Dispatched(msg, calls, raised) ==
    /\ \E b \in 1..Len(buses) : Running(b)
    /\ invoked' = calls
    /\ conn_invoked' = <<>>
    /\ gw_error' = raised
    /\ gwLastOp' = GwOp("dispatch", NoKey, FALSE, msg)
    /\ UNCHANGED <<registryVars, handleVars, buses, sendVars, peer_bus,
                   sensorVars>>

\* _callback_receive_message_from_serial_bus(msg), called by a running
\* transport; the subscribers are left abstract
callback_receive_message_from_serial_bus(msg) ==
    /\ Dispatched(msg, DispatchCalls(msg), "none")
    /\ UNCHANGED coverVars

\* mutant: only the observer registered first is told
ConnectionCalls_FirstOnly(status) ==
    [i \in 1..Min(1, Len(connection_state_subscriptons)) |->
        [callback |-> connection_state_subscriptons[i], status |-> status]]

\* gateway.py 91-93
ConnectionCalls(status) ==
    [i \in 1..Len(connection_state_subscriptons) |->
        [callback |-> connection_state_subscriptons[i], status |-> status]]

GwStatus(op, b, status) ==
    [op |-> op, key |-> NoKey, again |-> status,
     msg |-> [kind |-> "status", address |-> NoAddress]]

\* A running transport reports that its connection went up or down: it calls
\* the handler set at gateway.py 112, _fire_connection_state_changed_event.
fire_connection_state_changed_event(b, status) ==
    /\ Running(b)
    /\ buses[b].connected # status
    /\ buses' = [buses EXCEPT ![b].connected = status]
    /\ conn_invoked' = ConnectionCalls(status)
    /\ invoked' = <<>>
    /\ gw_error' = "none"
    /\ gwLastOp' = GwStatus("status", b, status)
    /\ UNCHANGED <<registryVars, handleVars, sendVars, coverVars, peer_bus,
                   sensorVars>>

\* A transport that was stopped but not joined winds down in its own thread
\* and reports DOWN through the handler it was given.
late_connection_state_changed_event(b) ==
    /\ buses[b].started
    /\ buses[b].stopped
    /\ ~buses[b].joined
    /\ buses[b].connected
    /\ buses' = [buses EXCEPT ![b].connected = FALSE]
    /\ conn_invoked' = ConnectionCalls(FALSE)
    /\ invoked' = <<>>
    /\ gw_error' = "none"
    /\ gwLastOp' = GwStatus("late_status", b, FALSE)
    /\ UNCHANGED <<registryVars, handleVars, sendVars, coverVars, peer_bus,
                   sensorVars>>

\* mutant: the fresh transport is started without stopping the current one
Reconnected_NoStop(bs) ==
    Append(bs, [NewTransport EXCEPT !.started = TRUE])

\* gateway.py 114-118: stop the current transport, construct a fresh one
\* (_init_bus), start it
Reconnected(bs) ==
    Append([bs EXCEPT ![Len(bs)].stopped = TRUE],
           [NewTransport EXCEPT !.started = TRUE])

reconnect ==
    /\ SetUp
    /\ Len(buses) < MaxBuses
    /\ buses' = Reconnected(buses)
    /\ invoked' = <<>>
    /\ conn_invoked' = <<>>
    /\ gw_error' = "none"
    /\ gwLastOp' = GwOp("reconnect", NoKey, FALSE, NoMessage)
    /\ UNCHANGED <<registryVars, handleVars, sendVars, coverVars, peer_bus,
                   sensorVars>>

\* gateway.py 125-129: stop() then join(); the transport's thread has ended
\* when join returns, having reported DOWN or not
unload ==
    /\ SetUp
    /\ ~buses[Bus].joined
    /\ \E reports \in BOOLEAN :
          /\ reports => buses[Bus].connected
          /\ conn_invoked' = IF reports THEN ConnectionCalls(FALSE) ELSE <<>>
    /\ buses' = [buses EXCEPT ![Bus].stopped = TRUE, ![Bus].joined = TRUE,
                              ![Bus].connected = FALSE]
    /\ invoked' = <<>>
    /\ gw_error' = "none"
    /\ gwLastOp' = GwOp("unload", NoKey, FALSE, NoMessage)
    /\ UNCHANGED <<registryVars, handleVars, sendVars, coverVars, peer_bus,
                   sensorVars>>

\* mutant: the sleep of set_tilt keeps the event loop (time.sleep)
SleepHoldsLoop_Blocking == TRUE

\* cover.py 184: the sleep is awaited (await asyncio.sleep), which suspends
\* the coroutine and hands the event loop back
SleepHoldsLoop == FALSE

\* the event loop can run a coroutine: no set_tilt is holding it
LoopFree == tilt_sleeping = 0 \/ ~SleepHoldsLoop

\* async_send_message_to_serial_bus(msg); esp2 = isinstance(msg, ESP2Message).
\* Telegrams (esp2) are numbered in the order they are passed.
async_send_message_to_serial_bus(esp2) ==
    /\ SetUp
    /\ LoopFree
    /\ Len(submitted) < MaxSends
    /\ submitted' = IF esp2 THEN Append(submitted, IsActive(Bus))
                    ELSE submitted
    /\ handed' = IF Forwarded(IsActive(Bus), esp2)
                 THEN handed \cup {Len(submitted) + 1}
                 ELSE handed
    /\ invoked' = <<>>
    /\ conn_invoked' = <<>>
    /\ gw_error' = "none"
    /\ gwLastOp' = GwOp("send", NoKey, esp2, NoMessage)
    /\ UNCHANGED <<registryVars, handleVars, buses, coverVars, peer_bus,
                   sensorVars>>

(***************************************************************************)
(* A second EnOceanGateway instance.  The three registries are attributes  *)
(* of the class (gateway.py 46-48) and no method assigns them on self, so   *)
(* both instances read and append to the same dict and lists; each has its *)
(* own transport (gateway.py 68).  The model registers through the first   *)
(* instance only.                                                          *)
(***************************************************************************)
\* start() called on the second instance's transport, stop() not yet
PeerRunning == peer_bus.started /\ ~peer_bus.stopped

\* async_setup of the second instance
peer_async_setup ==
    /\ ~peer_bus.started
    /\ peer_bus' = [peer_bus EXCEPT !.started = TRUE]
    /\ invoked' = <<>>
    /\ conn_invoked' = <<>>
    /\ gw_error' = "none"
    /\ gwLastOp' = GwOp("peer_async_setup", NoKey, FALSE, NoMessage)
    /\ UNCHANGED <<registryVars, handleVars, buses, sendVars, coverVars, sensorVars>>

\* _callback_receive_message_from_serial_bus(msg) of the second instance,
\* called by its transport
peer_callback_receive_message_from_serial_bus(msg) ==
    /\ PeerRunning
    /\ invoked' = DispatchCalls(msg)
    /\ conn_invoked' = <<>>
    /\ gw_error' = "none"
    /\ gwLastOp' = GwOp("peer_dispatch", NoKey, FALSE, msg)
    /\ UNCHANGED <<registryVars, handleVars, buses, peer_bus, sendVars,
                   coverVars, sensorVars>>

\* _fire_connection_state_changed_event(status) of the second instance,
\* called by its transport
peer_fire_connection_state_changed_event(status) ==
    /\ PeerRunning
    /\ peer_bus.connected # status
    /\ peer_bus' = [peer_bus EXCEPT !.connected = status]
    /\ conn_invoked' = ConnectionCalls(status)
    /\ invoked' = <<>>
    /\ gw_error' = "none"
    /\ gwLastOp' = GwStatus("peer_status", 0, status)
    /\ UNCHANGED <<registryVars, handleVars, buses, sendVars, coverVars, sensorVars>>

\* gateway.py 161-165 while the callback invoked at position `at` of the
\* loop calls the unsubscribe closure captured for `callback`: the for loop
\* keeps an index into the list and reads the list, as it is then, at every
\* step, so an entry that moves down past the index is not reached
RECURSIVE LoopCalls(_, _, _, _, _)
LoopCalls(list, i, at, callback, msg) ==
    IF i > Len(list) THEN <<>>
    ELSE <<[list |-> "address", callback |-> list[i], msg |-> msg,
            raised |-> IF msg.kind \in Decodes(list[i])
                       THEN "none" ELSE "WrongOrgError"]>>
         \o LoopCalls(IF i = at THEN Removal(list, callback).list ELSE list,
                      i + 1, at, callback, msg)

\* _callback_receive_message_from_serial_bus(msg) where the address callback
\* invoked at position `at` decodes the message and calls the unsubscribe
\* closure `key` of the same address (gateway.py 76, 160-165)
receive_while_unsubscribing(msg, at, key) ==
    /\ \E b \in 1..Len(buses) : Running(b)
    /\ msg.kind \in msg_classes
    /\ msg.address \in DOMAIN address_subscriptions
    /\ key.address = msg.address
    /\ live[key] > 0
    /\ LET list == address_subscriptions[msg.address]
       IN  /\ at \in 1..Len(list)
           /\ msg.kind \in Decodes(list[at])
           /\ Contains(list, key.callback)
           /\ address_subscriptions' =
                  [address_subscriptions EXCEPT
                      ![msg.address] = Removal(list, key.callback).list]
           /\ invoked' = GeneralCalls
                         \o LoopCalls(list, 1, at, key.callback, msg)
           /\ gwLastOp' = [op |-> "dispatch_unsubscribing", key |-> key,
                           again |-> FALSE, msg |-> msg,
                           caller |-> list[at]]
    /\ live' = [live EXCEPT ![key] = @ - 1]
    /\ spent' = [spent EXCEPT ![key] = @ + 1]
    /\ conn_invoked' = <<>>
    /\ gw_error' = "none"
    /\ UNCHANGED <<general_subscriptions, connection_state_subscriptons,
                   buses, sendVars, coverVars, peer_bus,
                   sensorVars>>

UnsubscribingNext ==
    \/ async_setup
    \/ \E a \in Addresses, cb \in Callbacks : register_address_callback(a, cb)
    \/ \E msg \in Messages : callback_receive_message_from_serial_bus(msg)
    \/ \E msg \in Messages, at \in 1..MaxHandles, key \in AddressKeys :
           receive_while_unsubscribing(msg, at, key)

PeersNext ==
    \/ async_setup
    \/ peer_async_setup
    \/ \E a \in Addresses, cb \in Callbacks : register_address_callback(a, cb)
    \/ \E cb \in Callbacks : register_message_received_callback(cb)
    \/ \E cb \in Callbacks : register_connection_state_callback(cb)
    \/ \E msg \in Messages : callback_receive_message_from_serial_bus(msg)
    \/ \E status \in BOOLEAN : fire_connection_state_changed_event(1, status)
    \/ \E msg \in Messages :
           peer_callback_receive_message_from_serial_bus(msg)
    \/ \E status \in BOOLEAN :
           peer_fire_connection_state_changed_event(status)

RouterNext ==
    \/ async_setup
    \/ \E a \in Addresses, cb \in Callbacks : register_address_callback(a, cb)
    \/ \E cb \in Callbacks : register_message_received_callback(cb)
    \/ \E cb \in Callbacks : register_connection_state_callback(cb)
    \/ \E key \in HandleKeys, again \in BOOLEAN : Unsubscribe(key, again)
    \/ \E msg \in Messages : callback_receive_message_from_serial_bus(msg)
    \/ \E status \in BOOLEAN : fire_connection_state_changed_event(1, status)

ConnNext ==
    \/ async_setup
    \/ \E cb \in Callbacks : register_connection_state_callback(cb)
    \/ \E key \in ConnectionKeys, again \in BOOLEAN : Unsubscribe(key, again)
    \/ \E b \in 1..Len(buses), status \in BOOLEAN :
           fire_connection_state_changed_event(b, status)
    \/ \E b \in 1..Len(buses) : late_connection_state_changed_event(b)
    \/ reconnect
    \/ unload
    \/ \E esp2 \in BOOLEAN : async_send_message_to_serial_bus(esp2)

\* the gateway specifications run beside one cover that is left alone
GatewayAloneInit ==
    /\ CoverStart(Cfg(20, 15, None), FALSE)
    /\ GatewayInit
    /\ SensorInit

SpecRouter == GatewayAloneInit /\ [][RouterNext]_vars
SpecConn == GatewayAloneInit /\ [][ConnNext]_vars
SpecPeers == GatewayAloneInit /\ [][PeersNext]_vars
SpecUnsubscribing == GatewayAloneInit /\ [][UnsubscribingNext]_vars
SpecSensors == GatewayAloneInit /\ [][SensorsNext]_vars

(***************************************************************************)
(* The cover as a subscriber of the gateway.  The cover registers its      *)
(* value_changed for its dev_id (entity.py 43-47); here that is callback   *)
(* cb1, which decodes like the cover, at address A1.  Other devices        *)
(* register cb2 and send through async_send_message_to_serial_bus.         *)
(***************************************************************************)
CoverAddress == "A1"
CoverCallback == "cb1"
CoverKey == Key("address", CoverAddress, CoverCallback)

\* entity.py 43-47
async_added_to_hass ==
    /\ LoopFree
    /\ live[CoverKey] + spent[CoverKey] = 0
    /\ register_address_callback(CoverAddress, CoverCallback)

\* the organisation G5_3F_7F.decode_message finds in a message of this kind
Org(kind) ==
    IF kind \in {"EltakoWrappedRPS", "RPSMessage"} THEN "RPS"
    ELSE IF kind \in {"EltakoWrapped4BS", "Regular4BSMessage"} THEN "4BS"
    ELSE "1BS"

\* the calls of a dispatch that go to the cover's value_changed
CoverCallAt(calls) ==
    {i \in 1..Len(calls) :
        /\ calls[i].list = "address"
        /\ calls[i].callback = CoverCallback
        /\ calls[i].msg.address = CoverAddress}

\* gateway.py 141-165 with the cover among the subscribers: msg carries the
\* payload tel.  An exception of value_changed other than WrongOrgError is
\* not caught by the loop and ends the dispatch.
receive_with_cover(msg, tel) ==
    LET calls == DispatchCalls(msg)
        at == CoverCallAt(calls)
    IN  /\ tel.org = Org(msg.kind)
        /\ IF at = {}
           THEN callback_receive_message_from_serial_bus(msg)
           ELSE
             /\ value_changed_cover(tel)
             /\ LET i == CHOOSE i \in at : TRUE
                IN  IF error' \in {"none", "WrongOrgError"}
                    THEN Dispatched(msg, calls, "none")
                    ELSE Dispatched(msg,
                             SubSeq([calls EXCEPT ![i].raised = error'], 1, i),
                             error')

\* the telegrams and messages of the combined specification
SystemTelegrams ==
    {t \in Telegrams :
        \/ t.state \in {80, 112}
        \/ t.time = 100 /\ t.direction = 1
        \/ t.org = "1BS"}
SystemMessages ==
    {m \in Messages :
        \/ m.address = CoverAddress
           /\ m.kind \in {"RPSMessage", "Regular4BSMessage",
                          "Regular1BSMessage"}
        \/ m.address # CoverAddress /\ m.kind = "Regular4BSMessage"}
SystemTiltTargets == {0, 70}

\* another device is added: it registers cb2 for its address
other_added_to_hass(address) ==
    /\ LoopFree
    /\ live[Key("address", address, "cb2")] = 0
    /\ spent[Key("address", address, "cb2")] = 0
    /\ register_address_callback(address, "cb2")

\* the cover's set_tilt service is called
set_tilt_called(tilt_position) ==
    /\ LoopFree
    /\ async_set_cover_tilt_position(tilt_position)

SystemNext ==
    \/ async_setup
    \/ \E status \in BOOLEAN : fire_connection_state_changed_event(1, status)
    \/ async_added_to_hass
    \/ \E a \in Addresses : other_added_to_hass(a)
    \/ \E msg \in SystemMessages, tel \in SystemTelegrams :
           receive_with_cover(msg, tel)
    \/ \E tilt_position \in SystemTiltTargets : set_tilt_called(tilt_position)
    \/ set_cover_tilt_position_resumes
    \/ async_send_message_to_serial_bus(TRUE)

SystemInit ==
    /\ CoverStart(Cfg(40, 20, 10), FALSE)
    /\ GatewayInit
    /\ SensorInit

SpecSystem == SystemInit /\ [][SystemNext]_vars

CoverNext ==
    \/ async_open_cover
    \/ async_close_cover
    \/ async_stop_cover
    \/ \E position \in Targets : async_set_cover_position(position)
    \/ \E tilt_position \in TiltTargets :
           async_set_cover_tilt_position(tilt_position)
    \/ set_cover_tilt_position_resumes
    \/ \E msg \in Telegrams : value_changed(msg)

Init ==
    /\ CoverInit
    /\ GatewayInit
    /\ SensorInit

SpecCover == Init /\ [][CoverNext]_vars

(***************************************************************************)
(* Properties of the cover                                                 *)
(***************************************************************************)
BothTravelTimes == time_opens # None /\ time_closes # None

\* k is int(x) for the double-precision x computed from the exact quotient
\* n / m: its integer part, or one less for the listed inexact pairs
TruncatesTo(k, n, m, inexact) ==
    IF inexact THEN (k + 1) * m = n ELSE k * m <= n /\ n < (k + 1) * m

\* round(n / m), halves to the even neighbour
RoundHalfEven(n, m) ==
    LET q == n \div m
        r == n % m
    IN  IF 2 * r < m THEN q
        ELSE IF 2 * r > m THEN q + 1
        ELSE IF q % 2 = 0 THEN q ELSE q + 1

\* C1: with both travel times configured and a target different from the
\* current position, set_position(100) issues exactly one move-UP command of
\* duration time_opens + 1 and set_position(0) exactly one move-DOWN command
\* of duration time_closes + 1.
C1_EndStopDurations ==
    (/\ lastOp.op = "set_position"
     /\ BothTravelTimes
     /\ lastOp.arg # lastOp.position)
    => /\ lastOp.arg = 100 => issued = <<H5_3F_7F(time_opens + 1, 1)>>
       /\ lastOp.arg = 0 => issued = <<H5_3F_7F(time_closes + 1, 2)>>

\* C6: from every cover state and configuration, handling the state code
\* 'fully closed' (0x50) leaves position = 0, tilt = 0, is_closed = true and
\* the direction idle (neither opening nor closing).
C6_FullyClosedForcesState ==
    (lastOp.op = "value_changed" /\ lastOp.msg.state = 80)
    => /\ current_cover_position = 0
       /\ current_cover_tilt_position = 0
       /\ is_closed = "True"
       /\ ~is_opening
       /\ ~is_closing

C6_Witness ==
    /\ lastOp.op = "value_changed"
    /\ lastOp.msg.state = 80
    /\ lastOp.position \notin {None, 0}
    /\ lastOp.tilt \notin {None, 0}
    /\ lastOp.opening
    /\ lastOp.closed = "False"
    /\ current_cover_position = 0

DurationHandled ==
    /\ lastOp.op = "value_changed"
    /\ lastOp.msg.org = "4BS"
    /\ BothTravelTimes

\* C7 as stated: a duration telegram moves the position by exactly
\* elapsed / travel_time * 100 (elapsed = time / 10), from the prior position
\* or from 0 (UP) resp. 100 (DOWN) if it was unknown, limited to 0..100.
C7_ExactDurationUpdate ==
    DurationHandled =>
        LET time == lastOp.msg.time
            up == lastOp.msg.direction = 1
            T == IF up THEN time_opens ELSE time_closes
            p == IF lastOp.position # None THEN lastOp.position
                 ELSE IF up THEN 0 ELSE 100
        IN  IF up
            THEN IF p * T + 10 * time >= 100 * T
                 THEN current_cover_position = 100
                 ELSE current_cover_position * T = p * T + 10 * time
            ELSE IF p * T - 10 * time <= 0
                 THEN current_cover_position = 0
                 ELSE current_cover_position * T = p * T - 10 * time

\* C7 amended: the step is int(elapsed / travel_time * 100), the
\* double-precision quotient truncated toward zero: position' =
\* min(p + step, 100) for UP and max(p - step, 0) for DOWN, p being the prior
\* position, or 0 (UP) resp. 100 (DOWN) if it was unknown.
C7_TruncatedDurationUpdate ==
    DurationHandled =>
        LET time == lastOp.msg.time
            up == lastOp.msg.direction = 1
            T == IF up THEN time_opens ELSE time_closes
            p == IF lastOp.position # None THEN lastOp.position
                 ELSE IF up THEN 0 ELSE 100
        IN  \E step \in 0..(10 * time) :
                /\ TruncatesTo(step, 10 * time, T,
                               <<time, T>> \in InexactDuration)
                /\ current_cover_position =
                       IF up THEN Min(p + step, 100) ELSE Max(p - step, 0)

C7_Witness ==
    /\ DurationHandled
    /\ lastOp.msg.time = 100
    /\ lastOp.msg.direction = 1
    /\ time_opens = 20
    /\ lastOp.position = None
    /\ current_cover_position = 50

InterpolatedMove ==
    /\ lastOp.op = "set_position"
    /\ BothTravelTimes
    /\ lastOp.position # None
    /\ lastOp.arg \notin {0, 100}
    /\ lastOp.arg # lastOp.position

\* C8 as stated: for a known position p and a target t strictly between 0
\* and 100, t # p, set_position(t) issues one move, UP if t > p else DOWN,
\* of duration round(|t - p| / 100 * travel_time) clamped to 1..255.
C8_RoundedInterpolation ==
    InterpolatedMove =>
        LET up == lastOp.arg > lastOp.position
            d == IF up THEN lastOp.arg - lastOp.position
                 ELSE lastOp.position - lastOp.arg
            T == IF up THEN time_opens ELSE time_closes
        IN  issued = <<H5_3F_7F(Max(1, Min(RoundHalfEven(d * T, 100), 255)),
                                 IF up THEN 1 ELSE 2)>>

\* C8 amended: the duration is int(|t - p| / 100 * travel_time), the
\* double-precision product truncated toward zero instead of rounded, then
\* clamped to 1..255; direction and the single command are as stated.
C8_TruncatedInterpolation ==
    InterpolatedMove =>
        LET up == lastOp.arg > lastOp.position
            d == IF up THEN lastOp.arg - lastOp.position
                 ELSE lastOp.position - lastOp.arg
            T == IF up THEN time_opens ELSE time_closes
        IN  \E k \in 0..255 :
                /\ TruncatesTo(k, d * T, 100, <<d, T>> \in InexactInterp)
                /\ issued = <<H5_3F_7F(Max(1, Min(k, 255)),
                                        IF up THEN 1 ELSE 2)>>

C8_Witness ==
    /\ InterpolatedMove
    /\ lastOp.position = 20
    /\ lastOp.arg = 80
    /\ time_opens = 40
    /\ issued = <<H5_3F_7F(24, 1)>>

StateAsBefore ==
    /\ current_cover_position = lastOp.position
    /\ current_cover_tilt_position = lastOp.tilt
    /\ is_opening = lastOp.opening
    /\ is_closing = lastOp.closing
    /\ is_closed = lastOp.closed

\* C12: set_tilt(target) on a cover without time_tilts is a silent no-op: no
\* telegram is sent, the cover state is unchanged and no error is raised,
\* for every target and every prior state.
C12_UnconfiguredTiltIsNoOp ==
    (lastOp.op = "set_tilt" /\ time_tilts = None)
    => /\ issued = <<>>
       /\ StateAsBefore
       /\ error = "none"

\* C13: no cover command raises an error to its caller: open, close, stop,
\* set_position and set_tilt complete normally in every reachable state, for
\* every configuration and both values of the fast-status-change flag.
C13_NoCommandRaises ==
    lastOp.op \in {"open", "close", "stop", "set_position", "set_tilt",
                   "set_tilt_resumed"}
    => error = "none"

\* C15: open() sends exactly one move-UP command of duration time_opens + 1
\* (255 if time_opens is unset), close() exactly one move-DOWN command of
\* duration time_closes + 1 (255 if unset), stop() exactly one stop command
\* of duration 0.
C15_EndStopCommands ==
    /\ lastOp.op = "open" =>
           issued = <<[moving_time |-> IF time_opens # None
                                       THEN time_opens + 1 ELSE 255,
                       command |-> 1]>>
    /\ lastOp.op = "close" =>
           issued = <<[moving_time |-> IF time_closes # None
                                       THEN time_closes + 1 ELSE 255,
                       command |-> 2]>>
    /\ lastOp.op = "stop" =>
           issued = <<[moving_time |-> 0, command |-> 0]>>

C15_Witness ==
    /\ lastOp.op = "close"
    /\ time_closes = 15
    /\ time_opens = 20
    /\ lastOp.position = 50
    /\ issued = <<[moving_time |-> 16, command |-> 2]>>

\* C16: with the fast-status-change flag enabled the direction right after a
\* command is Opening after open(), Closing after close(), Idle after stop()
\* and, after a set_position that issues a move, Opening for UP and Closing
\* for DOWN; with the flag disabled the commands leave the direction as it
\* was.
C16_OptimisticDirection ==
    IF fast_status_change
    THEN /\ lastOp.op = "open" => (is_opening /\ ~is_closing)
         /\ lastOp.op = "close" => (is_closing /\ ~is_opening)
         /\ lastOp.op = "stop" => (~is_opening /\ ~is_closing)
         /\ (lastOp.op = "set_position" /\ issued # <<>>) =>
                IF issued[1].command = 1
                THEN is_opening /\ ~is_closing
                ELSE is_closing /\ ~is_opening
    ELSE lastOp.op \in {"open", "close", "stop", "set_position"} =>
             (is_opening = lastOp.opening /\ is_closing = lastOp.closing)

\* C19: set_position(target) sends no telegram and leaves the cover state
\* unchanged when target equals the current position, and also when
\* time_opens or time_closes is not configured.
C19_SetPositionNoOp ==
    (/\ lastOp.op = "set_position"
     /\ (lastOp.arg = lastOp.position \/ ~BothTravelTimes))
    => /\ issued = <<>>
       /\ StateAsBefore
       /\ error = "none"
       /\ ~notified

C19_Witness ==
    /\ lastOp.op = "set_position"
    /\ BothTravelTimes
    /\ lastOp.arg = 47
    /\ lastOp.position = 47
    /\ lastOp.opening
    /\ issued = <<>>
    /\ is_opening

\* C21: after the cover handles a duration telegram that is accepted (both
\* travel times configured), direction = Idle and is_closed = (position = 0)
\* hold, for every prior state, also for a cover with time_tilts configured
\* whose tilt is still unknown.
C21_DurationLeavesIdle ==
    DurationHandled =>
        /\ ~is_opening
        /\ ~is_closing
        /\ is_closed = (IF current_cover_position = 0 THEN "True" ELSE "False")

\* C26: every move command (UP or DOWN) issued by open(), close() or
\* set_position() carries a duration within 1..255, for every configured
\* travel time in 1..255 and every reachable position.
C26_MoveDurationsInRange ==
    lastOp.op \in {"open", "close", "set_position"} =>
        \A i \in 1..Len(issued) :
            issued[i].command \in {1, 2} =>
                (1 <= issued[i].moving_time /\ issued[i].moving_time <= 255)

\* C27: every handling of a telegram that changes a field of the cover state
\* (position, tilt, direction or is_closed) is followed, within the same
\* handling, by a state-changed notification.
C27_MutationIsNotified ==
    (lastOp.op = "value_changed" /\ ~StateAsBefore) => notified

\* C28: a duration telegram received by a cover without time_opens or
\* without time_closes, and any telegram whose payload is neither one of the
\* four state codes nor a duration telegram, leaves position, tilt,
\* direction and is_closed unchanged.
C28_IgnoredTelegramsChangeNothing ==
    (/\ lastOp.op = "value_changed"
     /\ \/ lastOp.msg.org = "4BS" /\ ~BothTravelTimes
        \/ lastOp.msg.org # "4BS" /\ lastOp.msg.state \notin {1, 2, 80, 112})
    => StateAsBefore

C28_Witness ==
    /\ lastOp.op = "value_changed"
    /\ lastOp.msg.org = "4BS"
    /\ time_opens = 20
    /\ time_closes = None
    /\ lastOp.opening
    /\ lastOp.position = 100
    /\ is_opening
    /\ notified

\* C29: from every reachable cover state, handling the state code 'fully
\* open' (0x70) leaves direction = Idle, is_closed = false, position = 100
\* and tilt = 100.
C29_FullyOpenForcesState ==
    (lastOp.op = "value_changed" /\ lastOp.msg.state = 112)
    => /\ current_cover_position = 100
       /\ current_cover_tilt_position = 100
       /\ is_closed = "False"
       /\ ~is_opening
       /\ ~is_closing

C29_Witness ==
    /\ lastOp.op = "value_changed"
    /\ lastOp.msg.state = 112
    /\ lastOp.position \notin {None, 100}
    /\ lastOp.tilt \notin {None, 100}
    /\ lastOp.closing
    /\ current_cover_position = 100
    /\ current_cover_tilt_position = 100

\* C30: handling 'moving up' (0x01) sets direction = Opening and is_closed =
\* false, handling 'moving down' (0x02) sets direction = Closing and
\* is_closed = false; in both cases position and tilt keep their prior
\* values.
C30_MovingCodesSetDirection ==
    lastOp.op = "value_changed" =>
        /\ lastOp.msg.state = 1 =>
               /\ is_opening /\ ~is_closing /\ is_closed = "False"
               /\ current_cover_position = lastOp.position
               /\ current_cover_tilt_position = lastOp.tilt
        /\ lastOp.msg.state = 2 =>
               /\ is_closing /\ ~is_opening /\ is_closed = "False"
               /\ current_cover_position = lastOp.position
               /\ current_cover_tilt_position = lastOp.tilt

C30_Witness ==
    /\ lastOp.op = "value_changed"
    /\ lastOp.msg.state = 2
    /\ lastOp.closed = "True"
    /\ lastOp.position = 0
    /\ lastOp.tilt = 0
    /\ is_closing
    /\ is_closed = "False"
    /\ current_cover_position = 0

\* C32: for a cover with time_tilts configured and known tilt c, set_tilt(t)
\* with t # c issues a move of duration 0, UP if t > c else DOWN, and
\* suspends for min(|t - c| / 100 * time_tilts, 255) seconds (slept counts
\* hundredths of a second); the invocation that resumes issues a stop of
\* duration 0; set_tilt(t) with t = c issues no command and does not suspend.
C32_TiltMoveSleepStop ==
    /\ (lastOp.op = "set_tilt" /\ time_tilts # None /\ lastOp.tilt # None) =>
           IF lastOp.arg = lastOp.tilt
           THEN issued = <<>> /\ slept = None /\ error = "none"
           ELSE LET d == IF lastOp.arg > lastOp.tilt
                         THEN lastOp.arg - lastOp.tilt
                         ELSE lastOp.tilt - lastOp.arg
                IN  /\ issued = <<[moving_time |-> 0,
                                   command |-> IF lastOp.arg > lastOp.tilt
                                               THEN 1 ELSE 2]>>
                    /\ slept = Min(d * time_tilts, 255 * 100)
                    /\ tilt_sleeping > 0
                    /\ error = "none"
    /\ lastOp.op = "set_tilt_resumed" =>
           /\ issued = <<[moving_time |-> 0, command |-> 0]>>
           /\ slept = None
           /\ error = "none"

C32_Witness ==
    /\ lastOp.op = "set_tilt"
    /\ time_tilts = 10
    /\ lastOp.tilt = 100
    /\ lastOp.arg = 70
    /\ issued = <<[moving_time |-> 0, command |-> 2]>>
    /\ slept = 300
    /\ tilt_sleeping = 1

\* C33: a cover starts with position, tilt and is_closed unknown and
\* direction Idle, and in every reachable state position and tilt are each
\* unknown or within 0..100.
C33_EstimatesInRange ==
    /\ lastOp.op = "init" =>
           /\ current_cover_position = None
           /\ current_cover_tilt_position = None
           /\ is_closed = "None"
           /\ ~is_opening
           /\ ~is_closing
    /\ current_cover_position \in {None} \cup 0..100
    /\ current_cover_tilt_position \in {None} \cup 0..100

C33_Witness ==
    /\ DurationHandled
    /\ time_tilts = 10
    /\ lastOp.msg.time = 182
    /\ lastOp.msg.direction = 1
    /\ lastOp.tilt = 0
    /\ lastOp.position = 50
    /\ current_cover_tilt_position = 100
    /\ current_cover_position = 95

\* C34: in every reachable state the flags is_opening and is_closing are
\* never both true.
C34_DirectionSingleValued == ~(is_opening /\ is_closing)

C34_Witness ==
    /\ lastOp.op = "value_changed"
    /\ lastOp.msg.state = 1
    /\ lastOp.closing
    /\ is_opening
    /\ ~is_closing

\* C35: in every reachable state is_closed = true implies position = 0.
C35_ClosedMeansZero == is_closed = "True" => current_cover_position = 0

C35_Witness ==
    /\ lastOp.op = "value_changed"
    /\ lastOp.msg.state = 80
    /\ lastOp.position = 100
    /\ lastOp.closed = "False"
    /\ is_closed = "True"
    /\ current_cover_position = 0

\* C38: open, close, stop, set_position and set_tilt (its resumption
\* included) leave position, tilt and is_closed unchanged in every state and
\* configuration.
C38_CommandsKeepEstimate ==
    lastOp.op \in {"open", "close", "stop", "set_position", "set_tilt",
                   "set_tilt_resumed"}
    => /\ current_cover_position = lastOp.position
       /\ current_cover_tilt_position = lastOp.tilt
       /\ is_closed = lastOp.closed

C38_Witness ==
    /\ lastOp.op = "set_position"
    /\ lastOp.arg = 100
    /\ lastOp.position = 47
    /\ lastOp.closed = "False"
    /\ issued = <<[moving_time |-> 21, command |-> 1]>>
    /\ current_cover_position = 47
    /\ is_closed = "False"

(***************************************************************************)
(* Properties of the gateway                                               *)
(***************************************************************************)
AddressInvoked(cb) ==
    \E i \in 1..Len(invoked) :
        invoked[i].list = "address" /\ invoked[i].callback = cb

\* C2: once every unsubscribe function returned for (address A, callback cb)
\* has been called, no dispatch of a telegram with source address A invokes
\* cb as an address callback.
C2_NoResidualInvocation ==
    gwLastOp.op = "dispatch" =>
        \A cb \in Callbacks :
            LET key == Key("address", gwLastOp.msg.address, cb)
            IN  (spent[key] > 0 /\ live[key] = 0) => ~AddressInvoked(cb)

C2_Witness ==
    /\ gwLastOp.op = "dispatch"
    /\ gwLastOp.msg.kind \in msg_classes
    /\ spent[Key("address", gwLastOp.msg.address, "cb1")] > 0
    /\ live[Key("address", gwLastOp.msg.address, "cb1")] = 0
    /\ AddressInvoked("cb2")

\* C3: calling an unsubscribe function (of any of the three registries) a
\* second time raises no error and leaves every registry unchanged.
C3_UnsubscribeIdempotent ==
    [][(gwLastOp'.op = "unsubscribe" /\ gwLastOp'.again)
       => (gw_error' = "none" /\ UNCHANGED registryVars)]_vars

\* C4: dispatching a poll frame (EltakoPoll) invokes no broadcast callback
\* and no address callback, whatever is subscribed.
C4_PollInvokesNothing ==
    (gwLastOp.op = "dispatch" /\ gwLastOp.msg.kind = "EltakoPoll")
    => invoked = <<>>

C4_Witness ==
    /\ gwLastOp.op = "dispatch"
    /\ gwLastOp.msg.kind = "EltakoPoll"
    /\ general_subscriptions # <<>>
    /\ gwLastOp.msg.address \in DOMAIN address_subscriptions
    /\ address_subscriptions[gwLastOp.msg.address] # <<>>
    /\ invoked = <<>>

\* C5: a telegram passed to send while the transport is not active is never
\* handed to a transport, then or later; a telegram passed while it is
\* active is handed to it.
C5_DownSendsAreDropped ==
    /\ handed \subseteq 1..Len(submitted)
    /\ \A i \in 1..Len(submitted) : (i \in handed) <=> submitted[i]

C5_Witness ==
    /\ Len(submitted) >= 2
    /\ ~submitted[1]
    /\ submitted[2]
    /\ 1 \notin handed
    /\ 2 \in handed
    /\ IsActive(Bus)

\* C9: register_connection_state_callback(cb) invokes cb exactly once,
\* before it returns, with the current status of the gateway's transport.
C9_RegistrationReportsStatus ==
    gwLastOp.op = "register_connection_state_callback"
    => conn_invoked = <<[callback |-> gwLastOp.key.callback,
                         status |-> IsActive(Bus)]>>

C9_Witness ==
    /\ gwLastOp.op = "register_connection_state_callback"
    /\ IsActive(Bus)
    /\ Len(buses) > 1
    /\ Len(connection_state_subscriptons) >= 2
    /\ Len(conn_invoked) = 1
    /\ conn_invoked[1].status

AddressPart == SelectSeq(invoked, LAMBDA c : c.list = "address")

\* the address callbacks subscribed to the source of the last dispatch
SourceSubscribers ==
    IF gwLastOp.msg.address \in DOMAIN address_subscriptions
    THEN address_subscriptions[gwLastOp.msg.address]
    ELSE <<>>

GeneralInvoked(cb) ==
    \E i \in 1..Len(invoked) :
        invoked[i].list = "general" /\ invoked[i].callback = cb

\* C14: when several callbacks are subscribed to the source address of a
\* dispatched telegram and one of them raises WrongOrgError, the error is
\* caught and every callback registered after it is still invoked with that
\* telegram.
C14_ErrorDoesNotInterrupt ==
    gwLastOp.op = "dispatch" =>
        /\ gw_error = "none"
        /\ \A i \in 1..Len(AddressPart) :
               AddressPart[i].raised = "WrongOrgError" =>
                   \A j \in (i + 1)..Len(SourceSubscribers) :
                       /\ Len(AddressPart) >= j
                       /\ AddressPart[j].callback = SourceSubscribers[j]
                       /\ AddressPart[j].msg = gwLastOp.msg

C14_Witness ==
    /\ gwLastOp.op = "dispatch"
    /\ gwLastOp.msg.kind = "RPSMessage"
    /\ SourceSubscribers = <<"cb2", "cb1", "cb2">>
    /\ Len(AddressPart) = 3
    /\ AddressPart[1].raised = "WrongOrgError"
    /\ AddressPart[2].raised = "none"
    /\ AddressPart[3].raised = "WrongOrgError"

C18_StatusReachesEveryObserver ==
    gwLastOp.op = "status" =>
        /\ buses[Bus].connected = gwLastOp.again
        /\ conn_invoked =
               [i \in 1..Len(connection_state_subscriptons) |->
                   [callback |-> connection_state_subscriptons[i],
                    status |-> gwLastOp.again]]

C18_Witness ==
    /\ gwLastOp.op = "status"
    /\ gwLastOp.again
    /\ Len(buses) >= 3
    /\ connection_state_subscriptons = <<"cb2", "cb1">>
    /\ Len(conn_invoked) = 2
\* C17: the registries are scoped to one gateway instance: a callback
\* registered only on the first instance (address, broadcast or
\* connection-state) is never invoked by a telegram dispatched by the second
\* instance or by a status change of the second instance's transport.
C17_RegistriesAreScoped ==
    /\ gwLastOp.op = "peer_dispatch" => invoked = <<>>
    /\ gwLastOp.op = "peer_status" => conn_invoked = <<>>
\* C11: while a set_tilt invocation is suspended between its move command
\* and its stop command, inbound telegrams are still dispatched to every
\* subscriber, the same cover included, and commands of other devices are
\* still sent: the suspension blocks neither dispatch nor other sends.
C11_SuspensionBlocksNothing ==
    tilt_sleeping > 0 =>
        /\ \A msg \in SystemMessages :
               (\E b \in 1..Len(buses) : Running(b)) =>
                   ENABLED (\E tel \in SystemTelegrams :
                                receive_with_cover(msg, tel))
        /\ (SetUp /\ Len(submitted) < MaxSends) =>
               ENABLED async_send_message_to_serial_bus(TRUE)
        /\ (gwLastOp.op = "dispatch" /\ gwLastOp.msg.kind # "EltakoPoll") =>
               /\ gw_error = "none"
               /\ [i \in 1..Len(invoked) |-> invoked[i].callback] =
                      general_subscriptions \o
                      (IF gwLastOp.msg.kind \in msg_classes
                       THEN SourceSubscribers ELSE <<>>)

C11_Witness ==
    /\ tilt_sleeping > 0
    /\ gwLastOp.op = "dispatch"
    /\ gwLastOp.msg = [kind |-> "Regular4BSMessage", address |-> CoverAddress]
    /\ lastOp.op = "value_changed"
    /\ lastOp.position # current_cover_position
    /\ [i \in 1..Len(invoked) |-> invoked[i].callback] = <<"cb1", "cb2">>
    /\ submitted # <<>>
\* the registry and the callback of each invocation of the last dispatch
InvokedEntries ==
    [i \in 1..Len(invoked) |-> <<invoked[i].list, invoked[i].callback>>]

\* C22: dispatch of a telegram never lets a failure escape the gateway: for
\* every telegram and every reachable state of the subscribed devices (such
\* as a cover with time_tilts configured and tilt unknown that receives a
\* duration telegram) the dispatch returns normally and every subscriber
\* registered for the address has been invoked.
C22_DispatchAbsorbsFailures ==
    gwLastOp.op = "dispatch" =>
        /\ gw_error = "none"
        /\ gwLastOp.msg.kind \in msg_classes =>
               [i \in 1..Len(AddressPart) |-> AddressPart[i].callback] =
                   SourceSubscribers

Occurrences(list, x) == Cardinality({i \in 1..Len(list) : list[i] = x})

\* C24: in every reachable state of the registry a callback appears at most
\* once in the subscriber list of any address (registering the same callback
\* twice for one address creates no second entry), and unsubscribing
\* removes exactly that handle and leaves all other subscriptions unchanged.
C24_AtMostOncePerAddress ==
    \A a \in DOMAIN address_subscriptions, cb \in Callbacks :
        Occurrences(address_subscriptions[a], cb) <= 1

\* C31: stopping the gateway is terminal: once unload() has stopped and
\* joined a transport, no transport of the gateway is running and no
\* observer is told UP, whatever is called afterwards, reconnect() included.
C31_UnloadIsTerminal ==
    (\E b \in 1..Len(buses) : buses[b].joined) =>
        /\ \A b \in 1..Len(buses) : ~Running(b)
        /\ \A i \in 1..Len(conn_invoked) : ~conn_invoked[i].status

\* C36: after reconnect() has replaced the transport, a status notification
\* emitted late by the previous, stopped transport does not reach the
\* connection-state observers.
C36_LateStatusIsFiltered ==
    gwLastOp.op = "late_status" => conn_invoked = <<>>

\* C37: whenever a set_tilt invocation has handed its move command to the
\* transport, the invocation also hands its stop command to the transport
\* when it resumes, even if the connection status changed during the
\* suspension.  The resumption is the only place where the stop is sent.
C37_StopFollowsMove ==
    (/\ lastOp.op = "set_tilt_resumed"
     /\ \E i \in 1..Len(forwarded) : forwarded[i].command \in {1, 2})
    => \E j \in 1..Len(forwarded) : forwarded[j].command = 0

\* C39: if a callback calls an unsubscribe function of the address (its own
\* or another handle's) while a telegram is being dispatched, every other
\* callback that was registered for the address when the dispatch began and
\* is still registered is invoked once for each of its entries.
C39_UnsubscribeDuringDispatch ==
    gwLastOp.op = "dispatch_unsubscribing" =>
        \A cb \in Callbacks \ {gwLastOp.caller, gwLastOp.key.callback} :
            Occurrences([i \in 1..Len(AddressPart) |->
                            AddressPart[i].callback], cb)
            = Occurrences(SourceSubscribers, cb)

(***************************************************************************)
(* Properties of the digital input sensors                                 *)
(***************************************************************************)
\* C40: for each N in 0..3, after digital input sensor N handles a data
\* telegram (learn_button # 0) its is_on equals the telegram's
\* digital_input_N; a learn telegram (learn_button = 0) leaves is_on as it
\* was.
C40_SensorFollowsItsInput ==
    (sensorLastOp.op = "value_changed" /\ sensorLastOp.msg.org = "4BS") =>
        LET n == sensorLastOp.sensor
        IN  IF sensorLastOp.msg.learn_button # 0
            THEN is_on[n] = sensorLastOp.msg.digital_input[n]
            ELSE is_on[n] = sensorLastOp.before
====
